---- MODULE Spec2Model ----
(***************************************************************************)
(* Model of mediaqueue (src/mediaqueue/__init__.py): the budgeted          *)
(* selection of active files (select_files) and the reconciliation of the  *)
(* active and offload directory trees (main); and of the loop of           *)
(* continuous mode of src/dropbox-offload.py with its watcher thread.      *)
(*                                                                         *)
(* Strings are sequences of one-character strings, so that the string      *)
(* operations of the code (re.sub, os.path.commonprefix, os.path.dirname,  *)
(* str comparison) are computed character by character.                    *)
(***************************************************************************)
EXTENDS Integers, Sequences, FiniteSets, TLC

\* ------------------------------------------------------------------ bounds

\* File sizes are drawn from 0..MaxSize.
MaxSize == 1

\* Finite limits and the global minimum are drawn from -1..MaxLimit.
MaxLimit == 2

\* The program is run at most MaxPasses times in a row.
MaxPasses == 2

\* ---------------------------------------------------------------- constants

\* args.per_directory_limit = 3 when no limit is given.
DefaultPerDirectoryLimit == 3

\* ----------------------------------------------------------------- strings

\* Code points of the characters that occur in the modelled names.
Ord ==
    [c \in {".", "/", "0", "1", "2", "7", "A", "B", "a", "h", "o", "s"} |->
        CASE c = "." -> 46 [] c = "/" -> 47 [] c = "0" -> 48 [] c = "1" -> 49
          [] c = "2" -> 50 [] c = "7" -> 55 [] c = "A" -> 65 [] c = "B" -> 66
          [] c = "a" -> 97 [] c = "h" -> 104 [] c = "o" -> 111 [] c = "s" -> 115]

\* The class [0-9] of the regular expression in numeric_sort_key.
IsDigit(c) == Ord[c] >= Ord["0"] /\ Ord[c] <= Ord["0"] + 9

\* Python's str < str: lexicographic by code point, a proper prefix first.
RECURSIVE StrLess(_, _)
StrLess(a, b) ==
    IF b = <<>> THEN FALSE
    ELSE IF a = <<>> THEN TRUE
    ELSE IF Head(a) # Head(b) THEN Ord[Head(a)] < Ord[Head(b)]
    ELSE StrLess(Tail(a), Tail(b))

\* Length of the maximal digit run at the start of str.
RECURSIVE DigitRun(_)
DigitRun(str) ==
    IF str # <<>> /\ IsDigit(Head(str)) THEN 1 + DigitRun(Tail(str)) ELSE 0

\* n copies of the character "1".
Ones(n) == [i \in 1..n |-> "1"]

\* The key that leaves every name as it is.
numeric_sort_key_plain(str) == str

\* re.sub('[0-9]+', lambda x: '1' * len + '0' + x, str): every maximal digit
\* run of length n becomes n times "1", then "0", then the run itself.
RECURSIVE numeric_sort_key(_)
numeric_sort_key(str) ==
    IF str = <<>> THEN <<>>
    ELSE LET n == DigitRun(str) IN
         IF n = 0
         THEN <<Head(str)>> \o numeric_sort_key(Tail(str))
         ELSE Ones(n) \o <<"0">> \o SubSeq(str, 1, n)
                \o numeric_sort_key(SubSeq(str, n + 1, Len(str)))

\* ----------------------------------------------------------------- budgets

Min(a, b) == IF a <= b THEN a ELSE b
Max(a, b) == IF a >= b THEN a ELSE b

\* A limit is a finite integer or math.inf (the default of the three limits).
inf == [inf |-> TRUE, n |-> 0]
Fin(k) == [inf |-> FALSE, n |-> k]
Limits == {inf} \cup {Fin(k) : k \in -1..MaxLimit}

\* n < limit and n <= limit, for a limit that may be math.inf.
LtLim(n, lim) == lim.inf \/ n < lim.n
LeLim(n, lim) == lim.inf \/ n <= lim.n

\* size <= size_limit - num_bytes (math.inf - n is math.inf).
FitsLim(size, lim, used) == lim.inf \/ size <= lim.n - used

\* ------------------------------------------------------------ the universe

\* Top-level directory names (the groups) and paths relative to them.
Dirs == {<<"A">>, <<"B">>}
RelPaths == {<<"2">>, <<"1", "0">>, <<"s", "/", "1">>}
FileIds ==
    ({<<"A">>} \X RelPaths) \cup ({<<"B">>} \X {<<"2">>, <<"s", "/", "1">>})

VARIABLES
    args,                  \* the four budgets (parse_args' namespace)
    fs_dirs,               \* the directories on disk (paths)
    fs_files,              \* the files on disk: path -> [size, id]
    size_by_file_by_dir,   \* the inventory: <<dir, file>> -> size
    files,                 \* select_files' result: <<activate, dir, file>>, ...
    idx,                   \* position of main's loop in files
    pc,                    \* position in the program
    path,                  \* remove_empty_parents' argument path
    root,                  \* remove_empty_parents' argument root
    ops,                   \* the filesystem operations of this pass so far
    pass,                  \* number of the pass (invocation of main)
    prev,                  \* how the previous pass ended
    pre,                   \* disk and number of ops when the current or last
                           \* iteration of main's loop began
    enum,                  \* the order in which the inventory was filled:
                           \* <<dir, file>>, ... (insertion order of the dicts)
    helper,                \* continuous mode: the file-watch helper process
    pipe,                  \* the lines of the helper's stdout not yet read
    watcher,               \* position of the watcher thread
    event,                 \* the flag of the threading.Event
    driver,                \* position of the loop of continuous mode
    queue,                 \* the files in the queue directory
    offload,               \* the files in the offload directory
    scanned,               \* the sorted files that the pass has listed
    stat,                  \* the Statistics that were logged last
    raised,                \* notifications since the last pass began
    answered,              \* the value of raised when the last pass began
    names,                 \* two names handed to numeric_sort_key
    name_keys              \* their keys

\* The variables of continuous mode (src/dropbox-offload.py).
cont_vars == <<helper, pipe, watcher, event, driver, queue, offload, scanned,
               stat, raised, answered>>

\* The variables of the specification of numeric_sort_key.
key_vars == <<names, name_keys>>

vars == <<args, fs_dirs, fs_files, size_by_file_by_dir, files, idx, pc, path,
          root, ops, pass, prev, pre, enum, cont_vars, key_vars>>

\* Continuous mode is not running.
ContIdle ==
    /\ helper = "none"
    /\ pipe = 0
    /\ watcher = "none"
    /\ event = FALSE
    /\ driver = "none"
    /\ queue = {}
    /\ offload = {}
    /\ scanned = <<>>
    /\ stat = <<>>
    /\ raised = 0
    /\ answered = 0

\* No name is being compared.
KeyIdle ==
    /\ names = <<>>
    /\ name_keys = <<>>

\* What only the specification of the enumeration order reads and writes.
enum_vars == <<enum>>

\* What select_files neither reads nor writes.
disk_vars == <<fs_dirs, fs_files, idx, path, root, ops, pass, prev, pre>>

\* -------------------------------------------------------------- select_files

\* The files of a top-level directory in the inventory.
FilesOf(sbfbd, dir) == {id[2] : id \in {x \in DOMAIN sbfbd : x[1] = dir}}

\* sorted(S, key=numeric_sort_key) for names with distinct keys.
RECURSIVE SortNames(_)
SortNames(S) ==
    IF S = {} THEN <<>>
    ELSE LET m == CHOOSE x \in S : \A y \in S \ {x} :
                      StrLess(numeric_sort_key(x), numeric_sort_key(y))
         IN <<m>> \o SortNames(S \ {m})

\* sorted(size_by_file.keys(), key=numeric_sort_key)
SortedFiles(sbfbd, dir) == SortNames(FilesOf(sbfbd, dir))

\* 0-based index of file in the sorted files of dir (enumerate).
Rank(sbfbd, dir, file) ==
    LET s == SortedFiles(sbfbd, dir)
    IN (CHOOSE i \in 1..Len(s) : s[i] = file) - 1

\* The comparison of the keys without the directory name as the last resort.
KeyLessNoDir(sbfbd, x, y) ==
    LET lx == 0 - Cardinality(FilesOf(sbfbd, x[1]))
        ly == 0 - Cardinality(FilesOf(sbfbd, y[1]))
        kx == numeric_sort_key(x[3])
        ky == numeric_sort_key(y[3])
    IN IF x[2] # y[2] THEN x[2] < y[2]
       ELSE IF lx # ly THEN lx < ly
       ELSE StrLess(kx, ky)

\* key(x) < key(y) for x = <<dir, index, file>>: the tuples
\* (index, -len(size_by_file_by_dir[dir]), numeric_sort_key(file), dir)
\* compared as Python compares tuples.
KeyLess(sbfbd, x, y) ==
    LET lx == 0 - Cardinality(FilesOf(sbfbd, x[1]))
        ly == 0 - Cardinality(FilesOf(sbfbd, y[1]))
        kx == numeric_sort_key(x[3])
        ky == numeric_sort_key(y[3])
    IN IF x[2] # y[2] THEN x[2] < y[2]
       ELSE IF lx # ly THEN lx < ly
       ELSE IF kx # ky THEN StrLess(kx, ky)
       ELSE StrLess(x[1], y[1])

\* sorted(S, key=key) for tuples <<dir, index, file>> with distinct keys.
RECURSIVE SortTuples(_, _)
SortTuples(sbfbd, S) ==
    IF S = {} THEN <<>>
    ELSE LET m == CHOOSE x \in S : \A y \in S \ {x} : KeyLess(sbfbd, x, y)
         IN <<m>> \o SortTuples(sbfbd, S \ {m})

\* Tuples <<dir, index, file>> in processing order.
ordered_files(sbfbd) ==
    SortTuples(sbfbd,
        {<<id[1], Rank(sbfbd, id[1], id[2]), id[2]>> : id \in DOMAIN sbfbd})

\* The decision with the minimum reaching one file fewer.
ActivateMinOffByOne(a, num_files, num_dir, num_bytes, size, capped) ==
    (num_files + 1 < a.global_minimum
     \/ (/\ LtLim(num_dir, a.per_directory_limit)
         /\ LtLim(num_files, a.global_limit)
         /\ FitsLim(size, a.size_limit, num_bytes)))
    /\ ~capped

\* The decision with the bytes already activated left out of the size test.
ActivateSizeIgnoresUsed(a, num_files, num_dir, num_bytes, size, capped) ==
    (num_files < a.global_minimum
     \/ (/\ LtLim(num_dir, a.per_directory_limit)
         /\ LtLim(num_files, a.global_limit)
         /\ FitsLim(size, a.size_limit, 0)))
    /\ ~capped

\* The decision with the capped directories forgotten.
ActivateNoCap(a, num_files, num_dir, num_bytes, size, capped) ==
    num_files < a.global_minimum
    \/ (/\ LtLim(num_dir, a.per_directory_limit)
        /\ LtLim(num_files, a.global_limit)
        /\ FitsLim(size, a.size_limit, num_bytes))

\* The decision without the global minimum.
ActivateNoMin(a, num_files, num_dir, num_bytes, size, capped) ==
    (/\ LtLim(num_dir, a.per_directory_limit)
     /\ LtLim(num_files, a.global_limit)
     /\ FitsLim(size, a.size_limit, num_bytes))
    /\ ~capped

\* The decision with the size of the file itself left out of the size test.
ActivateNoSize(a, num_files, num_dir, num_bytes, size, capped) ==
    (num_files < a.global_minimum
     \/ (/\ LtLim(num_dir, a.per_directory_limit)
         /\ LtLim(num_files, a.global_limit)
         /\ FitsLim(0, a.size_limit, num_bytes)))
    /\ ~capped

\* The decision with <= for < in the per-directory test.
ActivateDirOffByOne(a, num_files, num_dir, num_bytes, size, capped) ==
    (num_files < a.global_minimum
     \/ (/\ LeLim(num_dir, a.per_directory_limit)
         /\ LtLim(num_files, a.global_limit)
         /\ FitsLim(size, a.size_limit, num_bytes)))
    /\ ~capped

\* The decision with <= for < in the global test.
ActivateGlobalOffByOne(a, num_files, num_dir, num_bytes, size, capped) ==
    (num_files < a.global_minimum
     \/ (/\ LtLim(num_dir, a.per_directory_limit)
         /\ LeLim(num_files, a.global_limit)
         /\ FitsLim(size, a.size_limit, num_bytes)))
    /\ ~capped

\* activate = (num_files < global_minimum or (num_files_by_directory[dir] <
\* per_directory_limit and num_files < global_limit and size <= size_limit -
\* num_bytes)) and dir not in capped_directories
Activate(a, num_files, num_dir, num_bytes, size, capped) ==
    (num_files < a.global_minimum
     \/ (/\ LtLim(num_dir, a.per_directory_limit)
         /\ LtLim(num_files, a.global_limit)
         /\ FitsLim(size, a.size_limit, num_bytes)))
    /\ ~capped

\* The loop of iter_files over ordered[i..]: st holds num_files, num_bytes,
\* num_files_by_directory and capped_directories; the result is the list of
\* the tuples yielded.
RECURSIVE IterFiles(_, _, _, _, _)
IterFiles(sbfbd, a, ordered, i, st) ==
    IF i > Len(ordered) THEN <<>>
    ELSE LET dir == ordered[i][1]
             file == ordered[i][3]
             size == sbfbd[<<dir, file>>]
             activate == Activate(a, st.num_files,
                                  st.num_files_by_directory[dir],
                                  st.num_bytes, size,
                                  dir \in st.capped_directories)
             nxt == IF activate
                    THEN [st EXCEPT
                            !.num_files_by_directory[dir] = @ + 1,
                            !.num_files = @ + 1,
                            !.num_bytes = @ + size]
                    ELSE [st EXCEPT
                            !.capped_directories = @ \cup {dir}]
         IN <<<<activate, dir, file>>>>
              \o IterFiles(sbfbd, a, ordered, i + 1, nxt)

select_files(sbfbd, a) ==
    IterFiles(sbfbd, a, ordered_files(sbfbd), 1,
              [num_files_by_directory |->
                    [d \in {id[1] : id \in DOMAIN sbfbd} |-> 0],
               num_files |-> 0,
               num_bytes |-> 0,
               capped_directories |-> {}])

\* --------------------------------------- the specification of select_files

\* Every inventory over the universe, with sizes 0..MaxSize.
Inventories ==
    UNION {[S -> 0..MaxSize] : S \in SUBSET FileIds}

\* Every combination of the four budgets.
Budgets ==
    [per_directory_limit : Limits,
     global_limit : Limits,
     size_limit : Limits,
     global_minimum : -1..MaxLimit]

NoDisk == [dirs |-> {}, files |-> <<>>, ops |-> 0]

SelInit ==
    /\ args \in Budgets
    /\ size_by_file_by_dir \in Inventories
    /\ files = <<>>
    /\ pc = "select"
    /\ fs_dirs = {}
    /\ fs_files = <<>>
    /\ idx = 1
    /\ path = <<>>
    /\ root = <<>>
    /\ ops = <<>>
    /\ pass = 1
    /\ prev = "none"
    /\ pre = NoDisk
    /\ enum = <<>>
    /\ ContIdle
    /\ KeyIdle

\* files = select_files(size_by_file_by_dir, ...)
Select ==
    /\ pc = "select"
    /\ files' = select_files(size_by_file_by_dir, args)
    /\ pc' = "selected"
    /\ UNCHANGED <<args, size_by_file_by_dir>>
    /\ UNCHANGED disk_vars
    /\ UNCHANGED enum_vars
    /\ UNCHANGED cont_vars
    /\ UNCHANGED key_vars

SelNext == Select

SelSpec == SelInit /\ [][SelNext]_vars

\* ------------------------------------ the specification of numeric_sort_key

\* Names have at most MaxNameLen characters.
MaxNameLen == 3

\* The characters of the names: a letter and three digits.
NameChars == {"a", "0", "1", "7"}

\* Every name of 1..MaxNameLen characters.
Names == UNION {[1..n -> NameChars] : n \in 1..MaxNameLen}

KeyInit ==
    /\ names \in Names \X Names
    /\ name_keys = <<>>
    /\ args = <<>>
    /\ fs_dirs = {}
    /\ fs_files = <<>>
    /\ size_by_file_by_dir = <<>>
    /\ files = <<>>
    /\ idx = 1
    /\ pc = "key"
    /\ path = <<>>
    /\ root = <<>>
    /\ ops = <<>>
    /\ pass = 1
    /\ prev = "none"
    /\ pre = NoDisk
    /\ enum = <<>>
    /\ ContIdle

\* numeric_sort_key is applied to both names.
Key ==
    /\ pc = "key"
    /\ name_keys' = <<numeric_sort_key(names[1]), numeric_sort_key(names[2])>>
    /\ pc' = "keyed"
    /\ UNCHANGED <<args, fs_dirs, fs_files, size_by_file_by_dir, files, idx,
                   path, root, ops, pass, prev, pre, enum, names>>
    /\ UNCHANGED cont_vars

KeyNext == Key

KeySpec == KeyInit /\ [][KeyNext]_vars

\* ----------------------------- select_files and the order of the inventory

\* The increasing sequence of the numbers of a finite set.
Increasing(I) ==
    [k \in 1..Cardinality(I) |->
        CHOOSE i \in I : Cardinality({j \in I : j < i}) = k - 1]

\* numeric_sort_key(x) < numeric_sort_key(y)
NameLess(x, y) == StrLess(numeric_sort_key(x), numeric_sort_key(y))

\* sorted(s, key=numeric_sort_key): Python's sort is stable, elements with
\* equal keys keep the order that they have in s.
sorted_by_name(s) ==
    LET pos(i) ==
            1 + Cardinality({j \in 1..Len(s) :
                    /\ j # i
                    /\ \/ NameLess(s[j], s[i])
                       \/ ~NameLess(s[i], s[j]) /\ j < i})
    IN [k \in 1..Len(s) |-> s[CHOOSE i \in 1..Len(s) : pos(i) = k]]

\* sorted(s, key=key), stable in the same way.
sorted_by_key(sbfbd, s) ==
    LET pos(i) ==
            1 + Cardinality({j \in 1..Len(s) :
                    /\ j # i
                    /\ \/ KeyLess(sbfbd, s[j], s[i])
                       \/ ~KeyLess(sbfbd, s[i], s[j]) /\ j < i})
    IN [k \in 1..Len(s) |-> s[CHOOSE i \in 1..Len(s) : pos(i) = k]]

\* size_by_file_by_dir.items(): the directories in the order in which they
\* were first inserted.
items(e) ==
    LET first == {i \in 1..Len(e) : \A j \in 1..(i - 1) : e[j][1] # e[i][1]}
    IN [k \in 1..Cardinality(first) |-> e[Increasing(first)[k]][1]]

\* size_by_file.keys() of a directory: its files in the order of insertion.
keys(e, dir) ==
    LET at == {i \in 1..Len(e) : e[i][1] = dir}
    IN [k \in 1..Cardinality(at) |-> e[Increasing(at)[k]][2]]

\* The generator that sorted(..., key=key) consumes: for the directories
\* ds[k..] in the order of items(), the tuples <<dir, index, file>> of
\* enumerate(sorted(size_by_file.keys(), key=numeric_sort_key)).
RECURSIVE Generated(_, _, _)
Generated(e, ds, k) ==
    IF k > Len(ds) THEN <<>>
    ELSE LET s == sorted_by_name(keys(e, ds[k]))
         IN [i \in 1..Len(s) |-> <<ds[k], i - 1, s[i]>>]
              \o Generated(e, ds, k + 1)

\* ordered_files for an inventory that was filled in the order e.
ordered_files_enumerated(e, sbfbd) ==
    sorted_by_key(sbfbd, Generated(e, items(e), 1))

\* select_files for an inventory that was filled in the order e.
select_files_enumerated(e, sbfbd, a) ==
    IterFiles(sbfbd, a, ordered_files_enumerated(e, sbfbd), 1,
              [num_files_by_directory |->
                    [d \in {id[1] : id \in DOMAIN sbfbd} |-> 0],
               num_files |-> 0,
               num_bytes |-> 0,
               capped_directories |-> {}])

\* The files of the inventories whose order is varied: two directories whose
\* first files have the same name.
EnumFileIds ==
    {<<<<"A">>, <<"2">>>>, <<<<"A">>, <<"1", "0">>>>,
     <<<<"B">>, <<"2">>>>, <<<<"B">>, <<"s", "/", "1">>>>}

\* The budgets under which the order is varied: each limit is 1 or absent.
EnumBudgets ==
    [per_directory_limit : {Fin(1), inf},
     global_limit : {Fin(1), inf},
     size_limit : {Fin(1), inf},
     global_minimum : {0, 1}]

\* The orders in which the files S can be inserted into the inventory.
Enumerations(S) ==
    {e \in [1..Cardinality(S) -> S] :
        \A i \in 1..Cardinality(S) : \A j \in 1..Cardinality(S) :
            e[i] = e[j] => i = j}

EnumInit ==
    /\ args \in EnumBudgets
    /\ size_by_file_by_dir \in
            UNION {[S -> 0..MaxSize] : S \in SUBSET EnumFileIds}
    /\ enum \in Enumerations(DOMAIN size_by_file_by_dir)
    /\ files = <<>>
    /\ pc = "select"
    /\ fs_dirs = {}
    /\ fs_files = <<>>
    /\ idx = 1
    /\ path = <<>>
    /\ root = <<>>
    /\ ops = <<>>
    /\ pass = 1
    /\ prev = "none"
    /\ pre = NoDisk
    /\ ContIdle
    /\ KeyIdle

\* files = select_files(size_by_file_by_dir, ...) on the inventory as it was
\* filled.
SelectEnumerated ==
    /\ pc \in {"select", "reselect"}
    /\ files' = select_files_enumerated(enum, size_by_file_by_dir, args)
    /\ pc' = "selected"
    /\ UNCHANGED <<args, size_by_file_by_dir, enum>>
    /\ UNCHANGED disk_vars
    /\ UNCHANGED cont_vars
    /\ UNCHANGED key_vars

\* The same inventory is built again with the directories and files listed
\* in another order; files still holds the result of the call before.
Reenumerate ==
    /\ pc = "selected"
    /\ enum' \in Enumerations(DOMAIN size_by_file_by_dir) \ {enum}
    /\ pc' = "reselect"
    /\ UNCHANGED <<args, size_by_file_by_dir, files>>
    /\ UNCHANGED disk_vars
    /\ UNCHANGED cont_vars
    /\ UNCHANGED key_vars

EnumNext == SelectEnumerated \/ Reenumerate

EnumSpec == EnumInit /\ [][EnumNext]_vars

\* ------------------------------------------------------------------- paths

\* The two positional arguments of the command line.
active_dir == <<"a">>
offload_dir == <<"o">>

\* os.path.join(a, b) for a relative b.
join(a, b) == a \o <<"/">> \o b

\* os.path.dirname(p): what precedes the last "/" of p.
dirname(p) ==
    LET slashes == {i \in 1..Len(p) : p[i] = "/"}
    IN IF slashes = {} THEN <<>>
       ELSE SubSeq(p, 1, (CHOOSE i \in slashes : \A j \in slashes : j <= i) - 1)

\* os.path.commonprefix([a, b]): the longest common prefix, by character.
RECURSIVE commonprefix(_, _)
commonprefix(a, b) ==
    IF a = <<>> \/ b = <<>> \/ Head(a) # Head(b) THEN <<>>
    ELSE <<Head(a)>> \o commonprefix(Tail(a), Tail(b))

is_subdir_of(inner, outer) == commonprefix(inner, outer) = outer

\* i.startswith('.')
IsHidden(name) == name # <<>> /\ Head(name) = "."

\* -------------------------------------------------------------------- disk

\* p lies below the directory d.
Below(d, p) == Len(p) > Len(d) + 1 /\ SubSeq(p, 1, Len(d) + 1) = d \o <<"/">>

\* The part of p after the directory d and its "/" (os.path.relpath).
relpath(p, d) == SubSeq(p, Len(d) + 2, Len(p))

\* os.path.exists, os.path.isdir, os.path.isfile and os.listdir on a disk
\* of directories D and files F.
exists(D, F, p) == p \in D \/ p \in DOMAIN F
isdir(D, F, p) == p \in D
isfile(D, F, p) == p \in DOMAIN F
listdir(D, F, d) ==
    {relpath(e, d) : e \in {x \in D \cup DOMAIN F : dirname(x) = d}}

\* A function without the arguments in S.
Without(F, S) == [x \in DOMAIN F \ S |-> F[x]]

\* iter_child_dirs(dir): the names of the non-hidden directories in dir.
iter_child_dirs(D, F, dir) ==
    {i \in listdir(D, F, dir) : ~IsHidden(i) /\ isdir(D, F, join(dir, i))}

\* A relative path one of whose components is hidden.
HasHiddenPart(rel) ==
    IsHidden(rel) \/ \E i \in 1..(Len(rel) - 1) : rel[i] = "/" /\ rel[i + 1] = "."

\* iter_files(root): the paths, relative to root, of the files that os.walk
\* reaches from root with hidden directories and hidden files left out.
iter_files(D, F, r) ==
    {relpath(x, r) : x \in {y \in DOMAIN F :
                                Below(r, y) /\ ~HasHiddenPart(relpath(y, r))}}

\* get_size(path)
get_size(D, F, p) == F[p].size

\* collect_files_with_sizes: the active tree is read first and the offload
\* tree second, so the size of an offload copy replaces that of an active one.
collect_files_with_sizes(D, F) ==
    LET in_tree(tree) ==
            UNION {{<<j, k>> : k \in iter_files(D, F, join(tree, j))} :
                        j \in iter_child_dirs(D, F, tree)}
    IN [x \in in_tree(active_dir) \cup in_tree(offload_dir) |->
            IF x \in in_tree(offload_dir)
            THEN get_size(D, F, join(join(offload_dir, x[1]), x[2]))
            ELSE get_size(D, F, join(join(active_dir, x[1]), x[2]))]

\* The test of remove_empty_parents(path, root): the parent of path is
\* removed if is_subdir_of(parent, root) and every entry i of the parent is
\* hidden and os.path.join(path, i) is no directory.
ShouldRemoveParent(D, F, p, r) ==
    LET parent == dirname(p)
    IN /\ is_subdir_of(parent, r)
       /\ \A i \in listdir(D, F, parent) :
              IsHidden(i) /\ ~isdir(D, F, join(p, i))

\* remove(path, ...): shutil.rmtree for a directory, taken as one operation,
\* os.unlink for a file.
RemovedDirs(D, F, p) ==
    IF isdir(D, F, p) THEN {d \in D : d # p /\ ~Below(p, d)} ELSE D
RemovedFiles(D, F, p) ==
    IF isdir(D, F, p) THEN Without(F, {f \in DOMAIN F : Below(p, f)})
    ELSE Without(F, {p})
RemoveOp(D, F, p) == <<IF isdir(D, F, p) THEN "rmtree" ELSE "unlink", p>>

\* The first directory that os.makedirs(p) creates: the shortest of p and its
\* ancestors that does not exist.
FirstMissing(D, F, p) ==
    LET chain == {SubSeq(p, 1, n) : n \in {Len(p)} \cup
                        {i - 1 : i \in {j \in 2..Len(p) : p[j] = "/"}}}
        missing == {d \in chain : ~exists(D, F, d)}
    IN CHOOSE d \in missing : \A e \in missing : Len(d) <= Len(e)

\* -------------------------------------------------------------------- main

\* The branches of main's loop with the stale copy of an activated file
\* removed without the test of its existence.
PlanRemoveUnchecked(activate, active_exists, offload_exists) ==
    IF activate
    THEN [remove |-> active_exists,
          move |-> IF offload_exists /\ ~active_exists
                   THEN "activate" ELSE "none"]
    ELSE [remove |-> active_exists /\ offload_exists,
          move |-> IF active_exists THEN "offload" ELSE "none"]

\* The branches of main's loop without the rename of an activation.
PlanNoActivation(activate, active_exists, offload_exists) ==
    IF activate
    THEN [remove |-> offload_exists /\ active_exists,
          move |-> "none"]
    ELSE [remove |-> active_exists /\ offload_exists,
          move |-> IF active_exists THEN "offload" ELSE "none"]

\* The branches of main's loop that lose the test for a stale duplicate.
PlanKeepDuplicate(activate, active_exists, offload_exists) ==
    IF activate
    THEN [remove |-> FALSE,
          move |-> IF offload_exists /\ ~active_exists
                   THEN "activate" ELSE "none"]
    ELSE [remove |-> active_exists /\ offload_exists,
          move |-> IF active_exists THEN "offload" ELSE "none"]

\* The branches of main's loop for one file: whether remove(offload_path,
\* offload_dir) is called, and which rename follows.
Plan(activate, active_exists, offload_exists) ==
    IF activate
    THEN [remove |-> offload_exists /\ active_exists,
          move |-> IF offload_exists /\ ~active_exists
                   THEN "activate" ELSE "none"]
    ELSE [remove |-> active_exists /\ offload_exists,
          move |-> IF active_exists THEN "offload" ELSE "none"]

\* The rename of an offload nested in the else of the duplicate test, so that
\* it is skipped after the removal of a stale copy.
AfterRemoveNoRename(activate) == "selected"

\* Where main's loop goes on when remove_empty_parents has returned: an
\* activation is complete, an offload goes on to rename(active_path,
\* offload_path).
AfterRemove(activate) == IF activate THEN "selected" ELSE "rename"

\* The stale copy is taken to be the active one.
StalePathActive(dir, file) == join(join(active_dir, dir), file)

\* The path that main hands to remove(): the offload copy.
StalePath(dir, file) == join(join(offload_dir, dir), file)

active_path(i) == join(join(active_dir, files[i][2]), files[i][3])
offload_path(i) == join(join(offload_dir, files[i][2]), files[i][3])

\* The file of the current iteration, its plan, and the arguments of rename.
InLoop == pc = "selected" /\ idx <= Len(files)
CurPlan ==
    Plan(files[idx][1],
         exists(fs_dirs, fs_files, active_path(idx)),
         exists(fs_dirs, fs_files, offload_path(idx)))
Source == IF files[idx][1] THEN offload_path(idx) ELSE active_path(idx)
Target == IF files[idx][1] THEN active_path(idx) ELSE offload_path(idx)

Snapshot == [dirs |-> fs_dirs, files |-> fs_files, ops |-> Len(ops)]

\* size_by_file_by_dir = collect_files_with_sizes(active_dir, offload_dir);
\* os.listdir raises if a root is missing, and main ends with the error.
Collect ==
    /\ pc = "collect"
    /\ IF active_dir \in fs_dirs /\ offload_dir \in fs_dirs
       THEN /\ size_by_file_by_dir' =
                    collect_files_with_sizes(fs_dirs, fs_files)
            /\ pc' = "select"
       ELSE /\ pc' = "crashed"
            /\ UNCHANGED size_by_file_by_dir
    /\ UNCHANGED <<args, fs_dirs, fs_files, files, idx, path, root, ops, pass,
                   prev, pre>>
    /\ UNCHANGED enum_vars
    /\ UNCHANGED cont_vars
    /\ UNCHANGED key_vars

\* The loop has no file left: main returns.
Finish ==
    /\ pc = "selected"
    /\ idx > Len(files)
    /\ pc' = "done"
    /\ UNCHANGED <<args, fs_dirs, fs_files, size_by_file_by_dir, files, idx,
                   path, root, ops, pass, prev, pre>>
    /\ UNCHANGED enum_vars
    /\ UNCHANGED cont_vars
    /\ UNCHANGED key_vars

\* An iteration whose existence tests call for nothing.
Settled ==
    /\ InLoop
    /\ ~CurPlan.remove
    /\ CurPlan.move = "none"
    /\ idx' = idx + 1
    /\ pre' = Snapshot
    /\ UNCHANGED <<args, fs_dirs, fs_files, size_by_file_by_dir, files, pc,
                   path, root, ops, pass, prev>>
    /\ UNCHANGED enum_vars
    /\ UNCHANGED cont_vars
    /\ UNCHANGED key_vars

\* remove(offload_path, offload_dir), up to its call of remove_empty_parents.
RemoveStale ==
    /\ InLoop
    /\ CurPlan.remove
    /\ LET p == StalePath(files[idx][2], files[idx][3])
       IN /\ fs_dirs' = RemovedDirs(fs_dirs, fs_files, p)
          /\ fs_files' = RemovedFiles(fs_dirs, fs_files, p)
          /\ ops' = Append(ops, RemoveOp(fs_dirs, fs_files, p))
          /\ path' = p
    /\ root' = offload_dir
    /\ pc' = "prune"
    /\ pre' = Snapshot
    /\ UNCHANGED <<args, size_by_file_by_dir, files, idx, pass, prev>>
    /\ UNCHANGED enum_vars
    /\ UNCHANGED cont_vars
    /\ UNCHANGED key_vars

\* remove_empty_parents(path, root) finds the parent removable:
\* remove(parent, root) removes it and calls remove_empty_parents(parent, root).
PruneRemove ==
    /\ pc = "prune"
    /\ ShouldRemoveParent(fs_dirs, fs_files, path, root)
    /\ LET parent == dirname(path)
       IN /\ fs_dirs' = RemovedDirs(fs_dirs, fs_files, parent)
          /\ fs_files' = RemovedFiles(fs_dirs, fs_files, parent)
          /\ ops' = Append(ops, RemoveOp(fs_dirs, fs_files, parent))
          /\ path' = parent
    /\ UNCHANGED <<args, size_by_file_by_dir, files, idx, pc, root, pass,
                   prev, pre>>
    /\ UNCHANGED enum_vars
    /\ UNCHANGED cont_vars
    /\ UNCHANGED key_vars

\* remove_empty_parents(path, root) returns without removing anything: an
\* activation is complete, an offload goes on to its rename.
PruneReturn ==
    /\ pc = "prune"
    /\ ~ShouldRemoveParent(fs_dirs, fs_files, path, root)
    /\ pc' = AfterRemove(files[idx][1])
    /\ idx' = IF pc' = "selected" THEN idx + 1 ELSE idx
    /\ UNCHANGED <<args, fs_dirs, fs_files, size_by_file_by_dir, files, path,
                   root, ops, pass, prev, pre>>
    /\ UNCHANGED enum_vars
    /\ UNCHANGED cont_vars
    /\ UNCHANGED key_vars

\* rename(source, target) is about to run: from the loop, for a file with no
\* stale duplicate, or after the removal of the duplicate.
AtRename ==
    \/ pc = "rename"
    \/ InLoop /\ ~CurPlan.remove /\ CurPlan.move # "none"

\* rename: os.makedirs(parent), one directory at a time.
Mkdir ==
    /\ AtRename
    /\ ~exists(fs_dirs, fs_files, dirname(Target))
    /\ LET d == FirstMissing(fs_dirs, fs_files, dirname(Target))
       IN /\ fs_dirs' = fs_dirs \cup {d}
          /\ ops' = Append(ops, <<"mkdir", d>>)
    /\ pc' = "rename"
    /\ pre' = IF pc = "selected" THEN Snapshot ELSE pre
    /\ UNCHANGED <<args, fs_files, size_by_file_by_dir, files, idx, path,
                   root, pass, prev>>
    /\ UNCHANGED enum_vars
    /\ UNCHANGED cont_vars
    /\ UNCHANGED key_vars

\* rename: os.rename(source, target). After an activation main calls
\* remove_empty_parents(offload_path, os.path.join(active_dir, dir)).
Rename ==
    /\ AtRename
    /\ exists(fs_dirs, fs_files, dirname(Target))
    /\ fs_files' = [x \in (DOMAIN fs_files \ {Source}) \cup {Target} |->
                        IF x = Target THEN fs_files[Source] ELSE fs_files[x]]
    /\ ops' = Append(ops, <<"rename", Source, Target>>)
    /\ pre' = IF pc = "selected" THEN Snapshot ELSE pre
    /\ IF files[idx][1]
       THEN /\ pc' = "prune"
            /\ path' = offload_path(idx)
            /\ root' = join(active_dir, files[idx][2])
            /\ idx' = idx
       ELSE /\ pc' = "selected"
            /\ idx' = idx + 1
            /\ UNCHANGED <<path, root>>
    /\ UNCHANGED <<args, fs_dirs, size_by_file_by_dir, files, pass, prev>>
    /\ UNCHANGED enum_vars
    /\ UNCHANGED cont_vars
    /\ UNCHANGED key_vars

\* The state in which an invocation of main begins.
Begin(how) ==
    /\ pc' = "collect"
    /\ pass' = pass + 1
    /\ prev' = how
    /\ size_by_file_by_dir' = <<>>
    /\ files' = <<>>
    /\ idx' = 1
    /\ path' = <<>>
    /\ root' = <<>>
    /\ ops' = <<>>
    /\ pre' = NoDisk
    /\ UNCHANGED <<args, fs_dirs, fs_files>>
    /\ UNCHANGED enum_vars
    /\ UNCHANGED cont_vars
    /\ UNCHANGED key_vars

\* KeyboardInterrupt between two filesystem operations of the loop ends the
\* pass; the program is then run again.
Interrupt ==
    /\ pc \in {"selected", "prune", "rename"}
    /\ ops # <<>>
    /\ pass < MaxPasses
    /\ Begin("interrupted")

\* The program is run again after a pass that ran to completion.
NextPass ==
    /\ pc = "done"
    /\ pass < MaxPasses
    /\ Begin("completed")

\* ------------------------------------------------- the specification of main

\* parse_args: with no limit given the per-directory limit is 3.
parse_args(b) ==
    IF b.per_directory_limit = inf /\ b.global_limit = inf /\ b.size_limit = inf
    THEN [b EXCEPT !.per_directory_limit = Fin(DefaultPerDirectoryLimit)]
    ELSE b

\* The command lines.
CommandLines ==
    [per_directory_limit : {inf},
     global_limit : {inf},
     size_limit : {Fin(0), inf},
     global_minimum : {0, 1}]

\* The files that may exist in either tree when the program starts.
DiskFileIds == {<<<<"A">>, <<"2">>>>, <<<<"A">>, <<"s", "/", "1">>>>,
                <<<<"B">>, <<"s", "/", "1">>>>}
DiskPaths ==
    {join(join(t, id[1]), id[2]) : t \in {active_dir, offload_dir},
                                    id \in DiskFileIds}

\* The sizes of the files on disk: empty, or one byte.
DiskSizes == {0, 1}

\* The hidden entries that the offload tree may hold when the program
\* starts: none, a hidden file in one directory, or a hidden directory with a
\* file in it.
HiddenConfigs ==
    {<<>>,
     <<join(offload_dir, <<".", "h">>)>>,
     <<join(join(offload_dir, <<"A">>), <<".", "h">>)>>,
     <<join(join(offload_dir, <<"A">>), <<"s", "/", ".", "h">>)>>,
     <<join(join(offload_dir, <<"A">>), <<".", "s", "/", "1">>)>>}

\* The ancestors of a path, the roots included.
RECURSIVE Ancestors(_)
Ancestors(p) ==
    IF dirname(p) = <<>> THEN {} ELSE {dirname(p)} \cup Ancestors(dirname(p))

Init ==
    /\ args \in {parse_args(b) : b \in CommandLines}
    /\ \E S \in SUBSET DiskPaths : \E sz \in [S -> DiskSizes] :
       \E hid \in HiddenConfigs :
          LET H == {hid[i] : i \in 1..Len(hid)}
          IN /\ fs_files = [x \in S \cup H |->
                              [size |-> IF x \in S THEN sz[x] ELSE 0,
                               id |-> x]]
             /\ fs_dirs = {active_dir, offload_dir}
                            \cup UNION {Ancestors(x) : x \in S \cup H}
    /\ size_by_file_by_dir = <<>>
    /\ files = <<>>
    /\ idx = 1
    /\ pc = "collect"
    /\ path = <<>>
    /\ root = <<>>
    /\ ops = <<>>
    /\ pass = 1
    /\ prev = "none"
    /\ pre = NoDisk
    /\ enum = <<>>
    /\ ContIdle
    /\ KeyIdle

Next ==
    \/ Collect
    \/ Select
    \/ Finish
    \/ Settled
    \/ RemoveStale
    \/ PruneRemove
    \/ PruneReturn
    \/ Mkdir
    \/ Rename
    \/ Interrupt
    \/ NextPass

Spec == Init /\ [][Next]_vars

\* ------------------------------- a pass with changes made by someone else

\* Someone else changes the two paths of at most MaxMutations files in a pass.
MaxMutations == 1

\* The changes that someone else has made during this pass.
Externals == {i \in 1..Len(ops) : ops[i][1] = "external"}

\* Between two iterations of main's loop someone else creates, deletes or
\* moves between the trees a file that the loop has yet to reach: its active
\* path and its offload path exist afterwards as in_a and in_o say. A file
\* that is created brings its directories with it, a file that is moved keeps
\* its content, one that is deleted leaves its directories behind.
Mutate ==
    /\ InLoop
    /\ Cardinality(Externals) < MaxMutations
    /\ \E i \in idx..Len(files) : \E in_a \in BOOLEAN : \E in_o \in BOOLEAN :
          LET a == active_path(i)
              o == offload_path(i)
              was_a == a \in DOMAIN fs_files
              was_o == o \in DOMAIN fs_files
              fresh(p) == [size |-> 0, id |-> <<"*">> \o p]
              now == {p \in {a} : in_a} \cup {p \in {o} : in_o}
              record(p) ==
                  IF p \in DOMAIN fs_files THEN fs_files[p]
                  ELSE IF p = a /\ was_o /\ ~in_o THEN fs_files[o]
                  ELSE IF p = o /\ was_a /\ ~in_a THEN fs_files[a]
                  ELSE fresh(p)
          IN /\ <<in_a, in_o>> # <<was_a, was_o>>
             /\ fs_files' = [p \in (DOMAIN fs_files \ {a, o}) \cup now |->
                                record(p)]
             /\ fs_dirs' = fs_dirs \cup UNION {Ancestors(p) : p \in now}
             /\ ops' = Append(ops, <<"external", a, o>>)
    /\ UNCHANGED <<args, size_by_file_by_dir, files, idx, pc, path, root,
                   pass, prev, pre>>
    /\ UNCHANGED enum_vars
    /\ UNCHANGED cont_vars
    /\ UNCHANGED key_vars

\* One pass on a disk without hidden entries.
MutInit ==
    /\ Init
    /\ DOMAIN fs_files \subseteq DiskPaths

MutNext ==
    \/ Collect
    \/ Select
    \/ Finish
    \/ Settled
    \/ RemoveStale
    \/ PruneRemove
    \/ PruneReturn
    \/ Mkdir
    \/ Rename
    \/ Mutate

MutSpec == MutInit /\ [][MutNext]_vars

\* ------------- a pass on a disk where a file's name is a directory's name

\* A file of the active tree whose relative path, A/s, is in the offload tree
\* the directory that holds A/s/1.
ClashPath == join(join(active_dir, <<"A">>), <<"s">>)

\* One pass on a disk without hidden entries that may hold the file a/A/s,
\* which excludes a/A/s/1 from the active tree.
ClashInit ==
    /\ args \in {parse_args(b) : b \in CommandLines}
    /\ \E S \in SUBSET (DiskPaths \cup {ClashPath}) :
       \E sz \in [S -> DiskSizes] :
          /\ ClashPath \in S => \A x \in S : ~Below(ClashPath, x)
          /\ fs_files = [x \in S |-> [size |-> sz[x], id |-> x]]
          /\ fs_dirs = {active_dir, offload_dir}
                            \cup UNION {Ancestors(x) : x \in S}
    /\ size_by_file_by_dir = <<>>
    /\ files = <<>>
    /\ idx = 1
    /\ pc = "collect"
    /\ path = <<>>
    /\ root = <<>>
    /\ ops = <<>>
    /\ pass = 1
    /\ prev = "none"
    /\ pre = NoDisk
    /\ enum = <<>>
    /\ ContIdle
    /\ KeyIdle

ClashNext ==
    \/ Collect
    \/ Select
    \/ Finish
    \/ Settled
    \/ RemoveStale
    \/ PruneRemove
    \/ PruneReturn
    \/ Mkdir
    \/ Rename

ClashSpec == ClashInit /\ [][ClashNext]_vars

\* --------------------------- continuous mode (src/dropbox-offload.py, main)

\* The helper's stdout holds at most MaxPipe unread lines when a change from
\* outside adds one.
MaxPipe == 2

\* --count is drawn from 1..MaxCount.
MaxCount == 2

\* The files of the one top-level directory of continuous mode.
WatchNames == {<<"2">>, <<"1", "0">>}

\* threading.Event: set() and clear().
set_dropped(flag) == flag
set(flag) == TRUE
clear(flag) == FALSE

\* files[:count] and files[count:] for count >= 1.
Keep(fl, count) == {fl[i] : i \in 1..Min(count, Len(fl))}
Rest(fl, count) == {fl[i] : i \in (count + 1)..Len(fl)}

\* One more notification since the last pass began, counted up to MaxPipe + 1.
Raise(n) == Min(n + 1, MaxPipe + 1)

\* The state of the other specifications' variables in continuous mode.
CoreIdle ==
    /\ fs_dirs = {}
    /\ fs_files = <<>>
    /\ size_by_file_by_dir = <<>>
    /\ files = <<>>
    /\ idx = 1
    /\ pc = "continuous"
    /\ path = <<>>
    /\ root = <<>>
    /\ ops = <<>>
    /\ pass = 1
    /\ prev = "none"
    /\ pre = NoDisk
    /\ enum = <<>>

core_vars == <<args, fs_dirs, fs_files, size_by_file_by_dir, files, idx, pc,
               path, root, ops, pass, prev, pre, enum>>

\* main with --continuous, inside "with dir_watcher_event(queue_dir)": the
\* helper runs, the watcher thread is started, the loop is about to run its
\* first pass.
ContInit ==
    /\ args \in [count : 1..MaxCount]
    /\ CoreIdle
    /\ KeyIdle
    /\ helper = "running"
    /\ pipe = 0
    /\ watcher = "readline"
    /\ event = FALSE
    /\ driver = "pass"
    /\ queue \in SUBSET WatchNames
    /\ offload \in SUBSET WatchNames
    /\ scanned = <<>>
    /\ stat = <<>>
    /\ raised = 0
    /\ answered = 0

\* The loop is running.
Running == driver \in {"pass", "apply", "wait", "clear"}

\* process_directories begins: it lists the files of both trees and sorts
\* them.
PassBegin ==
    /\ driver = "pass"
    /\ scanned' = SortNames(queue \cup offload)
    /\ driver' = "apply"
    /\ answered' = raised
    /\ raised' = 0
    /\ UNCHANGED <<helper, pipe, watcher, event, queue, offload, stat>>
    /\ UNCHANGED core_vars
    /\ UNCHANGED key_vars

\* process_directories moves the files with its tests of existence and
\* returns; the helper writes a line for every rename into or out of the
\* queue directory; main logs the statistics if they changed.
PassEnd ==
    /\ driver = "apply"
    /\ LET keep == Keep(scanned, args.count)
           rest == Rest(scanned, args.count)
           activated == (keep \cap offload) \ queue
           offloaded == rest \cap queue
           lines == IF helper = "running"
                    THEN Cardinality(activated) + Cardinality(offloaded)
                    ELSE 0
       IN /\ queue' = (queue \cup activated) \ offloaded
          /\ offload' = (offload \ keep) \cup offloaded
          /\ pipe' = pipe + lines
          /\ raised' = IF lines > 0 THEN Raise(raised) ELSE raised
          /\ stat' = <<Cardinality(keep), Cardinality(rest)>>
    /\ driver' = "wait"
    /\ UNCHANGED <<helper, watcher, event, scanned, answered>>
    /\ UNCHANGED core_vars
    /\ UNCHANGED key_vars

\* watcher(): event.wait() returns once the flag is set.
Wait ==
    /\ driver = "wait"
    /\ event
    /\ driver' = "clear"
    /\ UNCHANGED <<helper, pipe, watcher, event, queue, offload, scanned,
                   stat, raised, answered>>
    /\ UNCHANGED core_vars
    /\ UNCHANGED key_vars

\* watcher(): event.clear(), and the loop goes on to its next pass.
Clear ==
    /\ driver = "clear"
    /\ event' = clear(event)
    /\ driver' = "pass"
    /\ UNCHANGED <<helper, pipe, watcher, queue, offload, scanned, stat,
                   raised, answered>>
    /\ UNCHANGED core_vars
    /\ UNCHANGED key_vars

\* The watcher thread: process.stdout.readline() returns a line, or the
\* empty string at once when the helper has exited and no line is left.
Readline ==
    /\ watcher = "readline"
    /\ pipe > 0 \/ helper = "exited"
    /\ pipe' = IF pipe > 0 THEN pipe - 1 ELSE 0
    /\ watcher' = "set"
    /\ UNCHANGED <<helper, event, driver, queue, offload, scanned, stat,
                   raised, answered>>
    /\ UNCHANGED core_vars
    /\ UNCHANGED key_vars

\* The watcher thread: event.set().
Set ==
    /\ watcher = "set"
    /\ event' = set(event)
    /\ watcher' = "readline"
    /\ raised' = IF stat # <<>> \/ driver # "pass" THEN Raise(raised)
                 ELSE raised
    /\ UNCHANGED <<helper, pipe, driver, queue, offload, scanned, stat,
                   answered>>
    /\ UNCHANGED core_vars
    /\ UNCHANGED key_vars

\* Someone creates or deletes a file in the queue directory, and the helper
\* writes a line.
Change ==
    /\ Running
    /\ helper = "running"
    /\ pipe < MaxPipe
    /\ \E n \in WatchNames :
          queue' = IF n \in queue THEN queue \ {n} ELSE queue \cup {n}
    /\ pipe' = pipe + 1
    /\ raised' = IF stat # <<>> \/ driver # "pass" THEN Raise(raised)
                 ELSE raised
    /\ UNCHANGED <<helper, watcher, event, driver, offload, scanned, stat,
                   answered>>
    /\ UNCHANGED core_vars
    /\ UNCHANGED key_vars

\* The helper exits or fails while the loop is running.
HelperExit ==
    /\ Running
    /\ helper = "running"
    /\ helper' = "exited"
    /\ UNCHANGED <<pipe, watcher, event, driver, queue, offload, scanned,
                   stat, raised, answered>>
    /\ UNCHANGED core_vars
    /\ UNCHANGED key_vars

\* KeyboardInterrupt: the finally of dir_watcher_event kills the helper, main
\* ends and the daemon thread ends with the program.
InterruptLoop ==
    /\ Running
    /\ driver' = "stopped"
    /\ helper' = "exited"
    /\ watcher' = "ended"
    /\ UNCHANGED <<pipe, event, queue, offload, scanned, stat, raised,
                   answered>>
    /\ UNCHANGED core_vars
    /\ UNCHANGED key_vars

ContNext ==
    \/ PassBegin
    \/ PassEnd
    \/ Wait
    \/ Clear
    \/ Readline
    \/ Set
    \/ Change
    \/ HelperExit
    \/ InterruptLoop

\* Both threads keep being scheduled.
ContSpec ==
    /\ ContInit
    /\ [][ContNext]_vars
    /\ WF_vars(PassBegin)
    /\ WF_vars(PassEnd)
    /\ WF_vars(Wait)
    /\ WF_vars(Clear)
    /\ WF_vars(Readline)
    /\ WF_vars(Set)

\* ------------------------------------------------- properties of select_files

\* The <<dir, file>> that a list of decisions activates.
Activated(fl) == {<<fl[i][2], fl[i][3]>> : i \in {j \in 1..Len(fl) : fl[j][1]}}

\* The decision of a file in a list of decisions.
IsActivated(fl, dir, file) == <<dir, file>> \in Activated(fl)

\* The sum of the sizes of a set of files of the inventory.
RECURSIVE SumSizes(_, _)
SumSizes(sbfbd, S) ==
    IF S = {} THEN 0
    ELSE LET x == CHOOSE y \in S : TRUE
         IN sbfbd[x] + SumSizes(sbfbd, S \ {x})

Selected == pc = "selected"
Total == Cardinality(DOMAIN size_by_file_by_dir)
NumActivated == Cardinality(Activated(files))
NumActivatedIn(dir) == Cardinality({x \in Activated(files) : x[1] = dir})
BytesActivated == SumSizes(size_by_file_by_dir, Activated(files))

\* The files that the global minimum reaches: the first
\* min(global_minimum, total) files of the processing order, in which
\* select_files returns its decisions.
Forced ==
    {<<files[i][2], files[i][3]>> :
        i \in 1..Min(Max(args.global_minimum, 0), Len(files))}

\* C1: in the decisions of select_files, if the file at rank i of a group is
\* offloaded then every file of that group at rank > i is offloaded.
C1_PrefixNoGap ==
    Selected =>
        \A dir \in {x[1] : x \in DOMAIN size_by_file_by_dir} :
            LET s == SortedFiles(size_by_file_by_dir, dir)
            IN \A i \in 1..Len(s) : \A j \in 1..Len(s) :
                  (i < j /\ ~IsActivated(files, dir, s[i]))
                  => ~IsActivated(files, dir, s[j])

\* C1 witness: a group of three files whose rank 0 is activated and whose
\* rank 1 is offloaded for its size, while the smaller file at rank 2 would
\* still fit the size limit and is offloaded too.
C1_Witness ==
    /\ Selected
    /\ \E dir \in Dirs :
          LET s == SortedFiles(size_by_file_by_dir, dir)
          IN /\ Len(s) = 3
             /\ IsActivated(files, dir, s[1])
             /\ ~IsActivated(files, dir, s[2])
             /\ ~IsActivated(files, dir, s[3])
             /\ args.global_minimum <= 0
             /\ args.per_directory_limit = inf
             /\ args.global_limit = inf
             /\ ~args.size_limit.inf
             /\ size_by_file_by_dir[<<dir, s[3]>>]
                  <= args.size_limit.n - BytesActivated

\* C2: select_files activates at least min(global_minimum, total number of
\* files) files.
C2_GlobalMinimum ==
    Selected => NumActivated >= Min(args.global_minimum, Total)

\* C2 witness: the minimum alone decides: the other budgets admit nothing,
\* more files than the minimum are available and exactly the minimum is
\* activated.
C2_Witness ==
    /\ Selected
    /\ args.global_minimum >= 1
    /\ args.per_directory_limit = Fin(0)
    /\ Total > args.global_minimum
    /\ NumActivated = args.global_minimum

\* C3 as stated: the sum of the sizes of the activated files is <= size_limit.
\* It is taken for size limits >= 0 only: a negative limit is below every
\* sum, that of no file included.
C3_SizeBudgetAsStated ==
    (Selected /\ (args.size_limit.inf \/ args.size_limit.n >= 0))
    => LeLim(BytesActivated, args.size_limit)

\* C3 amended: the sum of the sizes of the activated files is <= size_limit
\* unless the global minimum forces it higher: it never exceeds the larger of
\* size_limit and the combined size of the first min(global_minimum, total)
\* files of the processing order.
C3_SizeBudget ==
    Selected =>
        \/ LeLim(BytesActivated, args.size_limit)
        \/ BytesActivated <= SumSizes(size_by_file_by_dir, Forced)

\* C3 witness: the minimum takes the activated bytes above a size limit
\* >= 0, and a later file is offloaded.
C3_Witness ==
    /\ Selected
    /\ ~args.size_limit.inf
    /\ args.size_limit.n >= 0
    /\ BytesActivated > args.size_limit.n
    /\ NumActivated < Total

\* C4 as stated: the number of activated files of any single group is
\* <= per_directory_limit. It is taken for per-directory limits >= 0 only: a
\* negative limit is below every count.
C4_PerGroupCapAsStated ==
    (/\ Selected
     /\ (args.per_directory_limit.inf \/ args.per_directory_limit.n >= 0))
    => \A dir \in Dirs : LeLim(NumActivatedIn(dir), args.per_directory_limit)

\* C4 amended: the number of activated files of a group is
\* <= per_directory_limit unless the global minimum forces it higher: it
\* never exceeds the larger of per_directory_limit and the number of the
\* group's files among the first min(global_minimum, total) files of the
\* processing order.
C4_PerGroupCap ==
    Selected =>
        \A dir \in Dirs :
            \/ LeLim(NumActivatedIn(dir), args.per_directory_limit)
            \/ NumActivatedIn(dir)
                 <= Cardinality({x \in Forced : x[1] = dir})

\* C4 witness: a group holds more files than a positive per-directory limit
\* that alone decides, and exactly the limit is activated in it.
C4_Witness ==
    /\ Selected
    /\ args.global_minimum <= 0
    /\ \E dir \in Dirs :
          /\ ~args.per_directory_limit.inf
          /\ args.per_directory_limit.n >= 1
          /\ Cardinality(FilesOf(size_by_file_by_dir, dir))
               > args.per_directory_limit.n
          /\ NumActivatedIn(dir) = args.per_directory_limit.n

\* C5 as stated: the number of activated files never exceeds
\* max(global_limit, global_minimum).
C5_GlobalCapAsStated ==
    Selected =>
        \/ LeLim(NumActivated, args.global_limit)
        \/ NumActivated <= args.global_minimum

\* C5 amended: the number of activated files is <= global_limit unless the
\* global minimum forces it higher, and a negative limit admits no file:
\* it never exceeds max(global_limit, global_minimum, 0).
C5_GlobalCap ==
    Selected =>
        \/ LeLim(NumActivated, args.global_limit)
        \/ NumActivated <= Max(args.global_minimum, 0)

\* C5 witness: the global limit alone decides: more files are available than
\* a positive global limit, above the minimum, and exactly the limit is
\* activated.
C5_Witness ==
    /\ Selected
    /\ ~args.global_limit.inf
    /\ args.global_limit.n >= 1
    /\ args.global_minimum < args.global_limit.n
    /\ Total > args.global_limit.n
    /\ NumActivated = args.global_limit.n

\* C11: select_files is deterministic: on the same inventory and budgets a
\* call returns the decisions of the call before, in the same order, whatever
\* the order in which the directories and files were inserted into the
\* inventory for either call.
C11_Determinism ==
    pc \in {"selected", "reselect"}
    => files = select_files_enumerated(enum, size_by_file_by_dir, args)

\* C11 witness: two directories of two files each whose first files have the
\* same name, one of them activated and the other offloaded, and the
\* inventory built again with the directories in the other order.
C11_Witness ==
    /\ pc = "reselect"
    /\ DOMAIN size_by_file_by_dir = EnumFileIds
    /\ IsActivated(files, <<"A">>, <<"2">>)
    /\ ~IsActivated(files, <<"B">>, <<"2">>)
    /\ items(enum) = <<<<"B">>, <<"A">>>>

\* The processing order in words: file x of group dx comes before file y of
\* group dy by rank ascending (the rank of a file is the number of files of
\* its group with a lesser natural key), then group size descending, then
\* natural key, then group name.
ComesBefore(sbfbd, dx, x, dy, y) ==
    LET rx == Cardinality({z \in FilesOf(sbfbd, dx) : NameLess(z, x)})
        ry == Cardinality({z \in FilesOf(sbfbd, dy) : NameLess(z, y)})
    IN IF rx # ry THEN rx < ry
       ELSE LET nx == Cardinality(FilesOf(sbfbd, dx))
                ny == Cardinality(FilesOf(sbfbd, dy))
            IN IF nx # ny THEN nx > ny
               ELSE IF x # y
                    THEN StrLess(numeric_sort_key(x), numeric_sort_key(y))
                    ELSE StrLess(dx, dy)

\* C18: the decisions come in the processing order (rank ascending, then
\* group size descending, then natural key, then group name), each before
\* the next, and the first min(global_minimum, total) of them are
\* activations, whatever the three limits are.
C18_MinimumOverrides ==
    Selected =>
        /\ Len(files) = Total
        /\ \A i \in 1..(Len(files) - 1) :
              ComesBefore(size_by_file_by_dir, files[i][2], files[i][3],
                          files[i + 1][2], files[i + 1][3])
        /\ \A i \in 1..Min(args.global_minimum, Total) : files[i][1]

\* C18 witness: a minimum of two files is activated against limits of 0 on
\* the files of a group, on all files and on their bytes: the first files of
\* two groups, of one byte each, and no other file.
C18_Witness ==
    /\ Selected
    /\ args.global_minimum = 2
    /\ args.per_directory_limit = Fin(0)
    /\ args.global_limit = Fin(0)
    /\ args.size_limit = Fin(0)
    /\ Total > 2
    /\ NumActivated = 2
    /\ files[1][2] # files[2][2]
    /\ BytesActivated = 2

\* C20 as stated: if more files are activated than the global minimum then
\* the sum of the sizes of the activated files is <= size_limit.
C20_SizeOnlyByMinimumAsStated ==
    (Selected /\ NumActivated > args.global_minimum)
    => LeLim(BytesActivated, args.size_limit)

\* C20 amended: if more files are activated than the global minimum, and at
\* least one file is, then the sum of the sizes of the activated files is
\* <= size_limit.
C20_SizeOnlyByMinimum ==
    (Selected /\ NumActivated > Max(args.global_minimum, 0))
    => LeLim(BytesActivated, args.size_limit)

\* C20 witness: a file activated by the minimum and a file activated beyond
\* it use up the size limit, and a further file is offloaded.
C20_Witness ==
    /\ Selected
    /\ args.global_minimum = 1
    /\ NumActivated > 1
    /\ NumActivated < Total
    /\ ~args.size_limit.inf
    /\ BytesActivated = args.size_limit.n
    /\ size_by_file_by_dir[<<files[1][2], files[1][3]>>] >= 1

\* ------------------------------------------- properties of numeric_sort_key

\* C19: when two names share a prefix that does not end in a digit and go on
\* with maximal digit runs of lengths n and m: if n < m the key of the first
\* name is less than the key of the second as Python compares strings; if
\* n = m and the first run is less than the second, digit by digit, so is the
\* first key.
C19_NaturalKeyOrder ==
    pc = "keyed" =>
        \A k \in 0..Min(Len(names[1]), Len(names[2])) :
            LET rest1 == SubSeq(names[1], k + 1, Len(names[1]))
                rest2 == SubSeq(names[2], k + 1, Len(names[2]))
                n == DigitRun(rest1)
                m == DigitRun(rest2)
            IN (/\ SubSeq(names[1], 1, k) = SubSeq(names[2], 1, k)
                /\ (k = 0 \/ ~IsDigit(names[1][k]))
                /\ n >= 1
                /\ m >= 1)
               => /\ n < m => StrLess(name_keys[1], name_keys[2])
                  /\ (n = m /\ StrLess(SubSeq(rest1, 1, n), SubSeq(rest2, 1, m)))
                        => StrLess(name_keys[1], name_keys[2])

\* C19 witness: the key of "10" is less than the key of "007", whose run is
\* longer, though "007" is less than "10" as a plain string.
C19_Witness ==
    /\ pc = "keyed"
    /\ names = <<<<"1", "0">>, <<"0", "0", "7">>>>
    /\ StrLess(names[2], names[1])
    /\ StrLess(name_keys[1], name_keys[2])

\* ---------------------------------------------------------- properties of main

\* The file <<dir, file>> exists in a tree.
InTree(tree, x) == exists(fs_dirs, fs_files, join(join(tree, x[1]), x[2]))

\* The kinds of the filesystem operations of this pass.
OpKinds == {ops[i][1] : i \in 1..Len(ops)}

\* The operations of the current or last iteration of main's loop.
StepOps == SubSeq(ops, pre.ops + 1, Len(ops))

\* An iteration of main's loop has just ended: the one for files[idx - 1].
StepDone == pc = "selected" /\ idx > 1

C7_Idempotence == prev = "completed" => ops = <<>>

C9_PruneOnActivation ==
    (/\ StepDone
     /\ files[idx - 1][1]
     /\ StepOps # <<>>
     /\ StepOps[Len(StepOps)][1] = "rename")
    => \A d \in Ancestors(offload_path(idx - 1)) \ {offload_dir} :
          d \in fs_dirs =>
              \E i \in listdir(fs_dirs, fs_files, d) : ~IsHidden(i)

\* C10: when a path exists in both trees as its decision is applied, the copy
\* that survives is the active one: under activate the offload copy is
\* deleted and the active copy stays as it is; under offload the offload copy
\* is deleted first and the active copy is then moved to the offload path.
C10_StaleDuplicate ==
    (/\ StepDone
     /\ active_path(idx - 1) \in DOMAIN pre.files
     /\ offload_path(idx - 1) \in DOMAIN pre.files)
    => LET a == active_path(idx - 1)
           o == offload_path(idx - 1)
       IN /\ StepOps # <<>>
          /\ StepOps[1] = <<"unlink", o>>
          /\ IF files[idx - 1][1]
             THEN /\ a \in DOMAIN fs_files
                  /\ fs_files[a] = pre.files[a]
                  /\ o \notin DOMAIN fs_files
                  /\ \A i \in 1..Len(StepOps) : StepOps[i][1] # "rename"
             ELSE /\ o \in DOMAIN fs_files
                  /\ fs_files[o] = pre.files[a]
                  /\ a \notin DOMAIN fs_files
                  /\ StepOps[Len(StepOps)] = <<"rename", a, o>>

\* C10 witness: an iteration has offloaded a file whose two copies differed
\* in size.
C10_Witness ==
    /\ StepDone
    /\ ~files[idx - 1][1]
    /\ active_path(idx - 1) \in DOMAIN pre.files
    /\ offload_path(idx - 1) \in DOMAIN pre.files
    /\ pre.files[active_path(idx - 1)].size
         # pre.files[offload_path(idx - 1)].size

\* C14: every directory that a pass removes lies strictly below the offload
\* root, and the offload root itself exists throughout.
C14_RootNeverRemoved ==
    /\ \A i \in 1..Len(ops) :
          ops[i][1] = "rmtree" => Below(offload_dir, ops[i][2])
    /\ pc # "crashed" => offload_dir \in fs_dirs

\* C15: a step that removes a directory removes one whose entries are all
\* hidden and none of whose entries is a non-empty directory.
C15_PrunabilityRule ==
    [][(/\ Len(ops') = Len(ops) + 1
        /\ ops'[Len(ops')][1] = "rmtree")
       => LET d == ops'[Len(ops')][2]
          IN \A i \in listdir(fs_dirs, fs_files, d) :
                /\ IsHidden(i)
                /\ ~(/\ isdir(fs_dirs, fs_files, join(d, i))
                     /\ listdir(fs_dirs, fs_files, join(d, i)) # {})]_vars

\* C16: when an iteration of main's loop has just ended, whatever someone
\* else did to the file's two paths before the iteration began: the file, if
\* it exists in either tree, exists only in the tree of its decision; and if
\* it existed in neither tree when the iteration began, the iteration
\* performed no filesystem operation.
C16_ExternalMutation ==
    (/\ StepDone
     /\ \A i \in (pre.ops + 1)..Len(ops) : ops[i][1] # "external")
    => LET a == active_path(idx - 1)
           o == offload_path(idx - 1)
           in_a == exists(fs_dirs, fs_files, a)
           in_o == exists(fs_dirs, fs_files, o)
       IN /\ (in_a \/ in_o)
                => (in_a = files[idx - 1][1] /\ in_o = ~files[idx - 1][1])
          /\ (a \notin DOMAIN pre.files /\ o \notin DOMAIN pre.files)
                => (StepOps = <<>> /\ ~in_a /\ ~in_o)

\* C16 witness: someone else moved a file to the tree against its decision
\* before its iteration began, and the iteration has moved it back.
C16_Witness ==
    /\ StepDone
    /\ StepOps # <<>>
    /\ StepOps[Len(StepOps)][1] = "rename"
    /\ \E i \in 1..pre.ops :
          /\ ops[i] = <<"external", active_path(idx - 1),
                       offload_path(idx - 1)>>
          /\ fs_files[StepOps[Len(StepOps)][3]].id
                = StepOps[Len(StepOps)][3]

\* C16 second witness: someone else deleted the only copy of a file before
\* its iteration began, and the iteration has ended without an operation.
C16_WitnessGone ==
    /\ StepDone
    /\ StepOps = <<>>
    /\ active_path(idx - 1) \notin DOMAIN pre.files
    /\ offload_path(idx - 1) \notin DOMAIN pre.files
    /\ pre.ops >= 1
    /\ ops[pre.ops] = <<"external", active_path(idx - 1),
                       offload_path(idx - 1)>>

\* C17: an iteration of main's loop for a file that is to be activated and
\* has no offload path, or is to be offloaded and has no active path, leaves
\* both trees as they were: it performs no filesystem operation.
C17_SettledNoAction ==
    (/\ StepDone
     /\ \/ /\ files[idx - 1][1]
           /\ ~exists(pre.dirs, pre.files, offload_path(idx - 1))
        \/ /\ ~files[idx - 1][1]
           /\ ~exists(pre.dirs, pre.files, active_path(idx - 1)))
    => /\ StepOps = <<>>
       /\ fs_dirs = pre.dirs
       /\ fs_files = pre.files

\* C17 witness: an iteration has ended for a file that is active and stays
\* active, while what would be the directory of its offload path holds
\* hidden entries only.
C17_Witness ==
    /\ StepDone
    /\ files[idx - 1][1]
    /\ active_path(idx - 1) \in DOMAIN pre.files
    /\ ~exists(pre.dirs, pre.files, offload_path(idx - 1))
    /\ dirname(offload_path(idx - 1)) \in fs_dirs
    /\ listdir(fs_dirs, fs_files, dirname(offload_path(idx - 1))) # {}
    /\ \A i \in listdir(fs_dirs, fs_files, dirname(offload_path(idx - 1))) :
          IsHidden(i)

\* C21: at every point between two filesystem operations of a pass, every
\* relative path of the inventory exists in at least one of the two trees.
C21_NeverAbsent ==
    pc \in {"selected", "prune", "rename"}
    => \A x \in DOMAIN size_by_file_by_dir :
          InTree(active_dir, x) \/ InTree(offload_dir, x)

\* No file lies below a file, and every file and directory but the roots
\* lies in a directory.
DiskWellFormed ==
    \A x \in fs_dirs \cup DOMAIN fs_files :
        x \in {active_dir, offload_dir} \/ dirname(x) \in fs_dirs

\* -------------------------------------------- properties of continuous mode

\* C12: every notification raised after a pass has begun (a line of the
\* helper, or event.set() of the watcher thread) is followed by the start of
\* a further pass, unless the program is interrupted.
C12_NoLostNotification ==
    (raised > 0) ~> (raised = 0 \/ driver = "stopped")

\* C12 witness: a pass has begun that answers three notifications raised
\* since the pass before it began (lines of the helper and calls of
\* event.set(), so at least two of one kind), while the helper runs.
C12_Witness ==
    /\ driver = "apply"
    /\ answered >= 3
    /\ helper = "running"

\* C13: when the helper has exited, the loop of continuous mode stops.
C13_HelperFailureFatal ==
    (helper = "exited") ~> (driver = "stopped")

====
